---- MODULE Spec2Model ----
(***************************************************************************)
(* A model of MolSSI/lammps_step: LAMMPS.run, the loop that accumulates    *)
(* the segments of a sub-flowchart, executes them with the engine,         *)
(* restarts convergence-controlled segments from dump files and extends    *)
(* them until the analysis of the potential energy reports no warning.     *)
(*                                                                         *)
(* Text is modelled as a sequence of one-character strings, a file name    *)
(* <base>.dump.<suffix> as the record of its parts, an input file as the   *)
(* sequence of its instructions.  The engine, glob, the dump reader and    *)
(* the trajectory analysis are the environment: each of their outcomes is  *)
(* a choice made by the action that calls them.                            *)
(***************************************************************************)
EXTENDS Integers, Sequences, FiniteSets, TLC

(***************************************************************************)
(* Bounds of the model.                                                    *)
(***************************************************************************)
\* number of nodes that follow the Initialization node in the sub-flowchart
MaxNodes == 3
\* a convergence loop is followed up to this iteration number
MaxIter == 2
\* number of files glob may return for one dump pattern
MaxFiles == 2
\* the 'time' parameter of the nodes is MaxTime - 1 or MaxTime (in fs)
MaxTime == 3
\* the 'timestep' parameter of the nodes is 'normal' or MaxTimestep (in fs)
MaxTimestep == 2
\* number of sections of a dump file
MaxSections == 3
\* number of atoms of an energy expression
MaxAtoms == 3
\* number of torsion types of an energy expression
MaxTorsionTypes == 2
\* number of calls of handle_dialog on one dialog
MaxDialogs == 2

(***************************************************************************)
(* Constants of the program.                                               *)
(***************************************************************************)
\* analyze_trajectory: fewer samples after equilibration give no ACF
ACF_MIN_SAMPLES == 10000
\* analyze_trajectory: fewer independent samples give the '*' warning
NEFF_MIN_SAMPLES == 100

Digits == <<"0", "1", "2", "3", "4", "5", "6", "7", "8", "9">>
DigitChars == {Digits[i] : i \in 1..10}
\* the texts glob's wildcard matches in this model: step counts, a step
\* count with a leading zero, and names that are no step count
DumpSuffixes ==
    { <<"1">>, <<"1", "2">>, <<"0", "1", "2">>,
      <<"x">>, <<"1", ".">>, <<"x", ".", "7">> }
\* the columns of a trajectory file that follow the first one
Properties == {"Epe", "Etot"}

(***************************************************************************)
(* Text and numbers.                                                       *)
(***************************************************************************)
IsDigits(s) == \A i \in 1..Len(s) : s[i] \in DigitChars

DigitValue(c) == (CHOOSE i \in 1..10 : Digits[i] = c) - 1

RECURSIVE DecimalValue(_)
DecimalValue(s) ==
    IF Len(s) = 0 THEN 0
    ELSE 10 * DecimalValue(SubSeq(s, 1, Len(s) - 1)) + DigitValue(s[Len(s)])

\* int(text): the text is a run of decimal digits, or ValueError
\* (the signs, blanks and underscores int() also takes are in no DumpSuffixes)
IntParses(s) == Len(s) > 0 /\ IsDigits(s)

\* str(n) and '%d' % n for n >= 0
RECURSIVE StrOfInt(_)
StrOfInt(n) ==
    IF n < 10 THEN <<Digits[n + 1]>>
    ELSE StrOfInt(n \div 10) \o <<Digits[(n % 10) + 1]>>

\* round(a / b) of Python 3: to the nearest integer, a half to the even one
RoundDiv(a, b) ==
    LET q == a \div b
        r == a % b
    IN  IF 2 * r < b THEN q
        ELSE IF 2 * r > b THEN q + 1
        ELSE IF q % 2 = 0 THEN q ELSE q + 1

\* os.path.splitext(name)[1].strip('.') for name = <base>.dump.<suffix>:
\* the text after the last dot of the name
RECURSIVE LastDot(_)
LastDot(s) ==
    IF Len(s) = 0 THEN 0
    ELSE IF s[Len(s)] = "." THEN Len(s)
    ELSE LastDot(SubSeq(s, 1, Len(s) - 1))

SplitExt(suffix) == SubSeq(suffix, LastDot(suffix) + 1, Len(suffix))

\* text.replace('*', by)
RECURSIVE ReplaceStar(_, _)
ReplaceStar(s, by) ==
    IF Len(s) = 0 THEN <<>>
    ELSE (IF s[1] = "*" THEN by ELSE <<s[1]>>) \o ReplaceStar(Tail(s), by)

MaxOf(S) == CHOOSE m \in S : \A x \in S : x <= m

RECURSIVE SeqsUpTo(_, _)
SeqsUpTo(S, n) ==
    IF n = 0 THEN {<<>>}
    ELSE LET shorter == SeqsUpTo(S, n - 1)
         IN  shorter \cup {Append(s, c) : s \in shorter, c \in S}

\* the lists without repetition of at most n elements of S
DistinctSeqs(S, n) ==
    {s \in SeqsUpTo(S, n) : \A i, j \in 1..Len(s) : i # j => s[i] # s[j]}

(***************************************************************************)
(* File names and instructions.                                            *)
(***************************************************************************)
\* the file 'lammps_substep_<ids joined by _>_iter_<iter>.dump.<suffix>';
\* its input file is 'lammps_substep_<ids>_iter_<iter>.dat'
DumpFile(ids, iter, suffix) == [ids |-> ids, iter |-> iter, suffix |-> suffix]

NoFile == DumpFile(<<>>, -1, <<>>)

\* the input file 'lammps_substep_<ids joined by _>_iter_<iter>.dat'
InFile(ids, iter) == [ids |-> ids, iter |-> iter]

Instr(op, file, step, n) == [op |-> op, file |-> file, step |-> step, n |-> n]

\* 'write_dump all custom <file> id xu yu zu modify flush yes sort id'
WriteDump(file) == Instr("write_dump", file, <<>>, 0)

\* 'read_dump <file> <step> x y z'
ReadDump(file, step) == Instr("read_dump", file, step, 0)

\* P['timestep'] in fs: 'normal' (0 in this model) is 1.0
TimestepFs(p) == IF p = 0 THEN 1 ELSE p

\* Initialization.get_input(): the header, which reads structure.dat
InitializationInput == <<Instr("read_data", NoFile, <<>>, 0)>>

\* node.get_input(extras) of a dynamics node: its fix, and 'run <nsteps>'
\* for nsteps = round(time / timestep)
GetInput(id, P) ==
    << Instr("fix", NoFile, <<>>, id),
       Instr("run", NoFile, <<>>, RoundDiv(P.time, TimestepFs(P.timestep))) >>

\* a loop that leaves the run lines as they are
KeepRun(lines) == lines

\* the loop over new_input_data that doubles every line with 'run' in it
DoubleRun(lines) ==
    [i \in 1..Len(lines) |->
        IF lines[i].op = "run"
        THEN Instr("run", lines[i].file, lines[i].step, lines[i].n * 2)
        ELSE lines[i]]

\* new_nsteps after that loop: the doubled count of the last 'run' line
NewNsteps(lines) ==
    LET runs == {i \in 1..Len(lines) : lines[i].op = "run"}
    IN  DoubleRun(lines)[MaxOf(runs)].n

(***************************************************************************)
(* The analysis of one trajectory file.                                    *)
(***************************************************************************)
\* what pymbar gives for one column: the number of samples after
\* equilibration, len(y_t_equil), and of independent ones, len(indices)
Streams ==
    { [tail |-> t, n |-> n] :
        t \in {ACF_MIN_SAMPLES - 1, ACF_MIN_SAMPLES},
        n \in {0, NEFF_MIN_SAMPLES - 1, NEFF_MIN_SAMPLES} }

Trajectories == [Properties -> Streams]

\* a test that also warns at the threshold itself
AnalyzeColumnAtThreshold(y) ==
    IF y.n = 0
    THEN [present |-> FALSE, short |-> FALSE, few |-> FALSE]
    ELSE [present |-> TRUE,
          short |-> y.tail < ACF_MIN_SAMPLES,
          few |-> y.n <= NEFF_MIN_SAMPLES]

\* the entries analyze_trajectory puts in results for one column; a column
\* without independent samples is passed over and gets none
AnalyzeColumn(y) ==
    IF y.n = 0
    THEN [present |-> FALSE, short |-> FALSE, few |-> FALSE]
    ELSE [present |-> TRUE,
          short |-> y.tail < ACF_MIN_SAMPLES,
          few |-> y.n < NEFF_MIN_SAMPLES]

AnalyzeTrajectory(trj) == [p \in Properties |-> AnalyzeColumn(trj[p])]

NoAnalysis ==
    [p \in Properties |-> [present |-> FALSE, short |-> FALSE, few |-> FALSE]]

\* a test that takes the second warning the wrong way round
ConvergedInverted(a) == a["Epe"].short = FALSE /\ a["Epe"].few = TRUE

\* a loop with a ceiling of one iteration: it ends after its first pass
ConvergedAtCeiling(a) == TRUE

\* the test of the loop that ends it: the two warnings of 'Epe' are False
Converged(a) == a["Epe"].short = FALSE /\ a["Epe"].few = FALSE

(***************************************************************************)
(* The dump files of a batch.                                              *)
(***************************************************************************)
\* a test for an empty list that never sees one
NoCheckpointNever(filenames) == FALSE

\* len(accum_dump_filenames) == 0
NoCheckpoint(filenames) == Len(filenames) = 0

\* a loop that passes over the files int() refuses
NoneMalformed(filenames) == 0

\* the first file of the list whose extension int() refuses, or 0
FirstMalformed(filenames) ==
    LET bad == {i \in 1..Len(filenames) :
                    ~IntParses(SplitExt(filenames[i].suffix))}
    IN  IF bad = {} THEN 0 ELSE CHOOSE i \in bad : \A j \in bad : i <= j

\* str(max(run_lengths)) once the loop over the files has ended; the
\* value it had before when the loop had no file to go through
LastSnapshot(filenames, before) ==
    LET run_lengths ==
            {DecimalValue(SplitExt(filenames[i].suffix)) :
                i \in {j \in 1..Len(filenames) :
                          IntParses(SplitExt(filenames[j].suffix))}}
    IN  IF run_lengths = {} THEN before ELSE StrOfInt(MaxOf(run_lengths))

\* accum_dump after the loop: the loop variable took the pattern's place,
\* so it is the last file of the list, with any '*' in it replaced
ResolvedDump(filenames, pattern, before) ==
    LET last == IF Len(filenames) = 0 THEN pattern
                ELSE filenames[Len(filenames)]
    IN  DumpFile(last.ids, last.iter,
                 ReplaceStar(last.suffix, LastSnapshot(filenames, before)))

\* a test of the result that never sees the sentinel
ExecNeverFailed(r) == FALSE

\* result is None
ExecFailed(r) == r = "None"

VARIABLES
    flowchart,              \* the nodes as the flowchart handed them over
    nodes,                  \* the nodes: kind, and the parameters time, timestep
    node,                   \* the index of the current node; Len(nodes) + 1 is None
    pc,                     \* the place run() is at
    input_data,             \* the pending batch
    initialization_header,  \* the lines of the Initialization node
    aliased,                \* input_data and initialization_header are one list
    history_nodes,          \* the chain history
    new_input_data,         \* the lines of the current node
    result,                 \* what local.run returned last
    last_call,              \* the input file of the last engine invocation
    accum_dump_filenames,   \* what glob returned for the dump pattern
    accum_dump,             \* the dump pattern, then the dump to restart from
    last_snapshot,          \* the step count of the dump to restart from
    dump_read,              \* the file read_dump read into the structure last
    iteration,
    timestep,
    analysis,               \* what analyze returned last
    decision,               \* the branch the last analysis led the loop to take
    loop_warnings,          \* per analysis of the loop that runs or has just
                            \* ended: is a warning of each kind set
    past,                   \* the position of the final analysis in the history
    retval,                 \* what run() returned
    error,                  \* the exception run() raised, and the file it names
    n_exec, n_read, n_analyze,
    infiles_written         \* the input files written for the engine, in order

run_vars ==
    << flowchart, nodes, node, pc, input_data, initialization_header, aliased,
       history_nodes, new_input_data, result, last_call, accum_dump_filenames,
       accum_dump, last_snapshot, dump_read, iteration, timestep, analysis,
       decision, loop_warnings, past, retval, error, n_exec, n_read, n_analyze,
       infiles_written >>

\* the variables of analyze_trajectory
VARIABLES
    an_pc,                  \* the place analyze_trajectory is at
    n_t,                    \* len(t): the number of rows of the trajectory
    dt_fs,                  \* the spacing of the rows
    t_units,                \* the unit of the time axis of the plots
    column,                 \* the position in data.columns[1:]
    stats,                  \* per column, what pymbar found for it
    results                 \* per column, what was worked out for it

analyze_vars == <<an_pc, n_t, dt_fs, t_units, column, stats, results>>

\* the variables of the conversions between a cell and a box
VARIABLES
    cell_pc,                \* the conversion that was last made
    cell_in,                \* (a, b, c, alpha, beta, gamma) given to cell_to_box
    box,                    \* (lx, ly, lz, xy, xz, yz), what cell_to_box returned
    cell_out                \* what box_to_cell returned for that box

cell_vars == <<cell_pc, cell_in, box, cell_out>>

\* the variables of read_dump
VARIABLES
    rd_pc,                  \* the place read_dump is at
    dumpfile,               \* the path of the dump file
    dump_lines,             \* the lines of the dump file
    lineno,
    section,                \* the name of the section being read
    section_lines,          \* the lines of that section read so far
    xyz,
    cell,                   \* the cell worked out from the box of the file
    system,                 \* seamm.data.structure
    rd_error,               \* the exception read_dump raised
    rd_message              \* and what its message is about

dump_vars ==
    <<rd_pc, dumpfile, dump_lines, lineno, section, section_lines, xyz, cell,
      system, rd_error, rd_message>>

\* the variables of structure_data
VARIABLES
    sd_pc,                  \* the place structure_data is at
    eex,                    \* the energy expression
    atom,                   \* the position in eex['atoms'] of the loop
    limits,                 \* xlo, xhi, ylo, yhi, zlo, zhi
    counter,                \* the position in eex['torsion parameters']
    coeffs,                 \* the lines of 'Dihedral Coeffs' so far
    sd_error                \* the exception structure_data raised

structure_vars == <<sd_pc, eex, atom, limits, counter, coeffs, sd_error>>

\* the variables of TkNVE.handle_dialog
VARIABLES
    P,                      \* self.node.parameters
    widgets,                \* what the widgets of the dialog hold
    dialog_active,
    dialog_result,          \* the result handle_dialog was last called with
    dialog_calls,           \* what that call did, in order
    dialog_error,           \* the exception that call raised
    n_dialogs               \* the number of calls of handle_dialog

dialog_vars ==
    <<P, widgets, dialog_active, dialog_result, dialog_calls, dialog_error,
      n_dialogs>>

not_run_vars ==
    <<analyze_vars, cell_vars, dump_vars, structure_vars, dialog_vars>>
not_analyze_vars ==
    <<run_vars, cell_vars, dump_vars, structure_vars, dialog_vars>>
not_cell_vars ==
    <<run_vars, analyze_vars, dump_vars, structure_vars, dialog_vars>>
not_dump_vars ==
    <<run_vars, analyze_vars, cell_vars, structure_vars, dialog_vars>>
not_structure_vars ==
    <<run_vars, analyze_vars, cell_vars, dump_vars, dialog_vars>>
not_dialog_vars ==
    <<run_vars, analyze_vars, cell_vars, dump_vars, structure_vars>>

vars == <<run_vars, not_run_vars>>

NoCall == [kind |-> "none", ids |-> <<>>, iter |-> -1, input |-> <<>>]
NoError == [type |-> "none", file |-> NoFile]

\* the sub-flowcharts: an Initialization node, then up to MaxNodes nodes
\* that share the parameters time and timestep
Flowcharts ==
    { <<[kind |-> "init", time |-> 0, timestep |-> 0]>> \o
        [i \in 1..Len(ks) |-> [kind |-> ks[i], time |-> t, timestep |-> ts]] :
        ks \in SeqsUpTo({"fixed", "conv"}, MaxNodes),
        t \in {MaxTime - 1, MaxTime},
        ts \in {0, MaxTimestep} }

RunInit ==
    /\ flowchart \in Flowcharts
    /\ nodes = flowchart
    /\ node = 1
    /\ pc = "loop"
    /\ input_data = <<>>
    /\ initialization_header = <<>>
    /\ aliased = FALSE
    /\ history_nodes = <<>>
    /\ new_input_data = <<>>
    /\ result = "unset"
    /\ last_call = NoCall
    /\ accum_dump_filenames = <<>>
    /\ accum_dump = NoFile
    /\ last_snapshot = <<>>
    /\ dump_read = NoFile
    /\ iteration = 0
    /\ timestep = 0
    /\ analysis = NoAnalysis
    /\ decision = "none"
    /\ loop_warnings = <<>>
    /\ past = 0
    /\ retval = "unset"
    /\ error = NoError
    /\ n_exec = 0
    /\ n_read = 0
    /\ n_analyze = 0
    /\ infiles_written = <<>>

\* run() is not being executed
RunIdle ==
    /\ flowchart = <<>>
    /\ nodes = <<>>
    /\ node = 1
    /\ pc = "idle"
    /\ input_data = <<>>
    /\ initialization_header = <<>>
    /\ aliased = FALSE
    /\ history_nodes = <<>>
    /\ new_input_data = <<>>
    /\ result = "unset"
    /\ last_call = NoCall
    /\ accum_dump_filenames = <<>>
    /\ accum_dump = NoFile
    /\ last_snapshot = <<>>
    /\ dump_read = NoFile
    /\ iteration = 0
    /\ timestep = 0
    /\ analysis = NoAnalysis
    /\ decision = "none"
    /\ loop_warnings = <<>>
    /\ past = 0
    /\ retval = "unset"
    /\ error = NoError
    /\ n_exec = 0
    /\ n_read = 0
    /\ n_analyze = 0
    /\ infiles_written = <<>>

NoCell == [a |-> 0, b |-> 0, c |-> 0, alpha |-> 0, beta |-> 0, gamma |-> 0]
NoBox == [lx |-> 0, ly |-> 0, lz |-> 0, xy |-> 0, xz |-> 0, yz |-> 0]

\* no conversion is being made
CellIdle ==
    /\ cell_pc = "idle"
    /\ cell_in = NoCell
    /\ box = NoBox
    /\ cell_out = NoCell

\* the local variable cell of read_dump before a box section is read
Unbound == [bound |-> FALSE, value |-> NoCell]

\* the cell and the coordinates the structure has before a dump is read
OldCell == [a |-> 20000, b |-> 20000, c |-> 20000,
            alpha |-> 90, beta |-> 90, gamma |-> 90]
OldCoordinates(n) == [i \in 1..n |-> <<9000, 9000, 9000>>]

\* no message: nothing was raised, or the exception is one of Python's own
NoMessage == [text |-> "", file |-> "", line |-> <<>>]

\* read_dump is not being executed
DumpIdle ==
    /\ rd_pc = "idle"
    /\ dumpfile = ""
    /\ dump_lines = <<>>
    /\ lineno = 0
    /\ section = <<>>
    /\ section_lines = <<>>
    /\ xyz = <<>>
    /\ cell = Unbound
    /\ system = [periodicity |-> 0, n_atoms |-> 0, cell |-> OldCell,
                 coordinates |-> <<>>]
    /\ rd_error = "none"
    /\ rd_message = NoMessage

\* structure_data is not being executed
NoLimits == [xlo |-> 0, xhi |-> 0, ylo |-> 0, yhi |-> 0, zlo |-> 0, zhi |-> 0]

StructureIdle ==
    /\ sd_pc = "idle"
    /\ eex = [periodicity |-> 0, cell |-> NoCell, atoms |-> <<>>,
              torsion_parameters |-> <<>>]
    /\ atom = 0
    /\ limits = NoLimits
    /\ counter = 0
    /\ coeffs = <<>>
    /\ sd_error = "none"

\* a parameter of the node: its value and its units
NoParameters ==
    [time |-> [value |-> "", units |-> ""],
     timestep |-> [value |-> "", units |-> ""],
     sampling |-> [value |-> "", units |-> ""]]

\* no dialog exists
DialogIdle ==
    /\ P = NoParameters
    /\ widgets = NoParameters
    /\ dialog_active = FALSE
    /\ dialog_result = "unset"
    /\ dialog_calls = <<>>
    /\ dialog_error = "none"
    /\ n_dialogs = 0

(***************************************************************************)
(* analyze_trajectory, column by column.  A time is kept as its thousands  *)
(* of fs and the fs that remain, so that 4 * 10^9 fs can be written; the   *)
(* halves of odd times are rounded down, which no comparison with a whole  *)
(* number of fs can tell.                                                  *)
(***************************************************************************)
Fs(k, r) == [kfs |-> k, fs |-> r]

\* n * t
TimesN(n, t) ==
    LET f == n * t.fs IN Fs(n * t.kfs + (f \div 1000), f % 1000)

\* t / 2
Half(t) == Fs(t.kfs \div 2, ((t.kfs % 2) * 1000 + t.fs) \div 2)

\* s < t
Less(s, t) == s.kfs < t.kfs \/ (s.kfs = t.kfs /\ s.fs < t.fs)

\* t >= k * 1000 fs
AtLeastKfs(t, k) == t.kfs >= k

\* len(t), the number of rows of the trajectory file
TrajectoryLengths == {10000, 12500}

\* t[1] - t[0]
Spacings ==
    { Fs(0, 1), Fs(0, 999), Fs(1, 0), Fs(3, 999), Fs(4, 0),
      Fs(0, 400), Fs(1, 600), Fs(400, 0), Fs(1600, 0) }

\* what pymbar finds for a column: detectEquilibration gives conv, the row
\* equilibration ends at, and the statistical inefficiency g;
\* subsampleCorrelatedData gives n independent rows
PymbarOutcomes ==
    { [conv |-> c, g |-> g, n |-> n] :
        c \in {0, 1, 2499, 2500, 2501},
        g \in {1, 2, 3},
        n \in {0, NEFF_MIN_SAMPLES - 1, NEFF_MIN_SAMPLES} }

NoStats == [conv |-> 0, g |-> 0, n |-> 0]

\* data.columns[1:]
Columns == <<"Epe", "Etot">>

\* the unit of the time axis, from the length of the trajectory
TUnits(len_trj) ==
    IF AtLeastKfs(len_trj, 4000000) THEN "ms"
    ELSE IF AtLeastKfs(len_trj, 4000) THEN "ns"
    ELSE IF AtLeastKfs(len_trj, 4) THEN "ps"
    ELSE "fs"

\* tau = dt_fs * (inefficiency - 1) / 2, and dt_fs / 2 at least
Tau(dt, g) ==
    LET tau == Half(TimesN(g - 1, dt))
    IN  IF Less(tau, Half(dt)) THEN Half(dt) ELSE tau

\* t0 = conv * dt_fs
T0(dt, conv) == TimesN(conv, dt)

\* the unit the convergence time is printed in
ConvUnits(t0) ==
    IF AtLeastKfs(t0, 1000000) THEN "ms"
    ELSE IF AtLeastKfs(t0, 1000) THEN "ns"
    ELSE IF AtLeastKfs(t0, 1) THEN "ps"
    ELSE "fs"

\* the unit the autocorrelation time is printed in
TauUnits(tau) ==
    IF AtLeastKfs(tau, 1000000) THEN "ms"
    ELSE IF AtLeastKfs(tau, 1000) THEN "ns"
    ELSE IF AtLeastKfs(tau, 1) THEN "ps"
    ELSE "fs"

\* a tail that is the whole column
StreamWhole(len, st) == [tail |-> len, n |-> st.n]

\* y_t_equil = yy[conv:] and the rows pymbar picked in it
Stream(len, st) ==
    [tail |-> IF st.conv < len THEN len - st.conv ELSE 0, n |-> st.n]

\* have_acf: the autocorrelation function is computed
HaveAcf(y) == ~(y.tail < ACF_MIN_SAMPLES)

\* nlags = 4 * int(round(inefficiency + 0.5)), int(len(y_t_equil) / 2) at most
Nlags(y, g) ==
    LET nlags == 4 * RoundDiv(2 * g + 1, 2)
    IN  IF nlags > y.tail \div 2 THEN y.tail \div 2 ELSE nlags

NoResults ==
    [present |-> FALSE, short |-> FALSE, few |-> FALSE, n_sample |-> 0,
     have_acf |-> FALSE, nlags |-> 0, conv_units |-> "", tau_units |-> ""]

\* one pass of the loop over the columns: the entries of results and what
\* is printed for the column; nothing for a column pymbar finds no row in
ColumnResults(len, dt, st) ==
    LET y == Stream(len, st)
        warnings == AnalyzeColumn(y)
    IN  IF ~warnings.present THEN NoResults
        ELSE [present |-> TRUE,
              short |-> warnings.short,
              few |-> warnings.few,
              n_sample |-> y.n,
              have_acf |-> HaveAcf(y),
              nlags |-> IF HaveAcf(y) THEN Nlags(y, st.g) ELSE 0,
              conv_units |-> ConvUnits(T0(dt, st.conv)),
              tau_units |-> TauUnits(Tau(dt, st.g))]

AnalysisIdle ==
    /\ an_pc = "idle"
    /\ n_t = 0
    /\ dt_fs = Fs(0, 0)
    /\ t_units = ""
    /\ column = 0
    /\ stats = [p \in Properties |-> NoStats]
    /\ results = [p \in Properties |-> NoResults]

\* analyze_trajectory is called for a trajectory file
InitAnalysis ==
    /\ RunIdle
    /\ CellIdle
    /\ DumpIdle
    /\ StructureIdle
    /\ DialogIdle
    /\ an_pc = "open"
    /\ n_t \in TrajectoryLengths
    /\ dt_fs \in Spacings
    /\ t_units = ""
    /\ column = 0
    /\ stats = [p \in Properties |-> NoStats]
    /\ results = [p \in Properties |-> NoResults]

\* the file is read and the unit of the time axis worked out
OpenTrajectory ==
    /\ an_pc = "open"
    /\ t_units' = TUnits(TimesN(n_t - 1, dt_fs))
    /\ column' = 1
    /\ an_pc' = "columns"
    /\ UNCHANGED <<n_t, dt_fs, stats, results>>
    /\ UNCHANGED not_analyze_vars

\* one pass of the loop over the columns
AnalyzeNextColumn ==
    /\ an_pc = "columns"
    /\ column <= Len(Columns)
    /\ \E st \in PymbarOutcomes :
          /\ stats' = [stats EXCEPT ![Columns[column]] = st]
          /\ results' = [results EXCEPT ![Columns[column]] =
                            ColumnResults(n_t, dt_fs, st)]
    /\ column' = column + 1
    /\ UNCHANGED <<an_pc, n_t, dt_fs, t_units>>
    /\ UNCHANGED not_analyze_vars

\* return results
ReturnResults ==
    /\ an_pc = "columns"
    /\ column > Len(Columns)
    /\ an_pc' = "returned"
    /\ UNCHANGED <<n_t, dt_fs, t_units, column, stats, results>>
    /\ UNCHANGED not_analyze_vars

NextAnalysis ==
    \/ OpenTrajectory
    \/ AnalyzeNextColumn
    \/ ReturnResults

SpecAnalysis == InitAnalysis /\ [][NextAnalysis]_vars

(***************************************************************************)
(* cell_to_box and box_to_cell.  A length is a whole number of thousandths *)
(* of its unit, an angle a whole number of degrees, a cosine a whole       *)
(* number of ten-thousandths; square roots and quotients are rounded to    *)
(* the unit, and acos to the nearest ten degrees.                          *)
(***************************************************************************)
\* cos of 0, 10, ..., 180 degrees
CosTable ==
    << 10000, 9848, 9397, 8660, 7660, 6428, 5000, 3420, 1736, 0,
       -1736, -3420, -5000, -6428, -7660, -8660, -9397, -9848, -10000 >>

\* cos(radians(deg))
Cos(deg) == CosTable[(deg \div 10) + 1]

Abs(x) == IF x < 0 THEN -x ELSE x

\* n / d to the nearest whole number, for d > 0
DivRound(n, d) == (2 * n + d) \div (2 * d)

\* x * cos(radians(deg))
MulCos(x, deg) == DivRound(x * Cos(deg), 10000)

\* sqrt(n): the largest r in lo..hi with r * r <= n
RECURSIVE SqrtBetween(_, _, _)
SqrtBetween(n, lo, hi) ==
    IF lo = hi THEN lo
    ELSE LET mid == (lo + hi + 1) \div 2
         IN  IF mid * mid <= n THEN SqrtBetween(n, mid, hi)
             ELSE SqrtBetween(n, lo, mid - 1)

Sqrt(n) == SqrtBetween(n, 0, 40000)

\* degrees(acos(num / den))
AcosDeg(num, den) ==
    LET x == DivRound(num, den \div 10000)
    IN  CHOOSE d \in {10 * k : k \in 0..18} :
            \A e \in {10 * k : k \in 0..18} :
                Abs(Cos(d) - x) <= Abs(Cos(e) - x)

\* the cells given to cell_to_box
Cells ==
    { [a |-> a, b |-> b, c |-> c, alpha |-> al, beta |-> be, gamma |-> ga] :
        a \in {10000}, b \in {10000, 12000}, c \in {10000, 12000},
        al \in {60, 80, 90, 100, 120},
        be \in {60, 80, 90, 100, 120},
        ga \in {60, 80, 90, 100, 120} }

\* box_to_cell(lx, ly, lz, xy, xz, yz)
box_to_cell(bx) ==
    IF bx.xy = 0 /\ bx.xz = 0 /\ bx.yz = 0
    THEN [a |-> bx.lx, b |-> bx.ly, c |-> bx.lz,
          alpha |-> 0, beta |-> 0, gamma |-> 0]
    ELSE LET b == Sqrt(bx.ly * bx.ly + bx.xy * bx.xy)
             c == Sqrt(bx.lz * bx.lz + bx.xz * bx.xz + bx.yz * bx.yz)
         IN  [a |-> bx.lx, b |-> b, c |-> c,
              alpha |-> AcosDeg(bx.xy * bx.xz + bx.lx * bx.yz, b * c),
              beta |-> AcosDeg(bx.xz * 10000, c * 10000),
              gamma |-> AcosDeg(bx.xy * 10000, b * 10000)]

\* c**2 - xz**2 - yz**2 in cell_to_box, the number its last sqrt is given
LzSquared(cl) ==
    LET xy == MulCos(cl.b, cl.gamma)
        xz == MulCos(cl.c, cl.beta)
        ly == Sqrt(cl.b * cl.b - xy * xy)
        yz == DivRound(cl.b * MulCos(cl.c, cl.alpha) - xy * xz, ly)
    IN  cl.c * cl.c - xz * xz - yz * yz

\* sqrt raises ValueError: no box has these angles
MathDomainError(cl) ==
    /\ ~(cl.alpha = 90 /\ cl.beta = 90 /\ cl.gamma = 90)
    /\ LzSquared(cl) < 0

\* cell_to_box(a, b, c, alpha, beta, gamma)
cell_to_box(cl) ==
    IF cl.alpha = 90 /\ cl.beta = 90 /\ cl.gamma = 90
    THEN [lx |-> cl.a, ly |-> cl.b, lz |-> cl.c, xy |-> 0, xz |-> 0, yz |-> 0]
    ELSE LET xy == MulCos(cl.b, cl.gamma)
             xz == MulCos(cl.c, cl.beta)
             ly == Sqrt(cl.b * cl.b - xy * xy)
             yz == DivRound(cl.b * MulCos(cl.c, cl.alpha) - xy * xz, ly)
         IN  [lx |-> 0, ly |-> ly, lz |-> Sqrt(LzSquared(cl)),
              xy |-> xy, xz |-> xz, yz |-> yz]

\* a cell is about to be converted
InitCell ==
    /\ RunIdle
    /\ AnalysisIdle
    /\ DumpIdle
    /\ StructureIdle
    /\ DialogIdle
    /\ cell_pc = "cell"
    /\ cell_in \in Cells
    /\ box = NoBox
    /\ cell_out = NoCell

CellToBox ==
    /\ cell_pc = "cell"
    /\ IF MathDomainError(cell_in)
       THEN /\ cell_pc' = "raised"
            /\ UNCHANGED box
       ELSE /\ cell_pc' = "box"
            /\ box' = cell_to_box(cell_in)
    /\ UNCHANGED <<cell_in, cell_out>>
    /\ UNCHANGED not_cell_vars

BoxToCell ==
    /\ cell_pc = "box"
    /\ cell_out' = box_to_cell(box)
    /\ cell_pc' = "back"
    /\ UNCHANGED <<cell_in, box>>
    /\ UNCHANGED not_cell_vars

NextCell ==
    \/ CellToBox
    \/ BoxToCell

SpecCell == InitCell /\ [][NextCell]_vars

(***************************************************************************)
(* read_dump, line by line.  A line 'ITEM: <name>' is kept as the words of *)
(* the name, any other line as the numbers it holds; lengths are whole     *)
(* numbers of thousandths.                                                 *)
(***************************************************************************)
ItemLine(name) == [item |-> TRUE, name |-> name, tokens |-> <<>>]
DataLine(tokens) == [item |-> FALSE, name |-> <<>>, tokens |-> tokens]

\* a section of a dump file: its 'ITEM:' line and the lines that follow
DumpSection(name, rows) ==
    <<ItemLine(name)>> \o [i \in 1..Len(rows) |-> DataLine(rows[i])]

NUMBER_OF_ATOMS == <<"NUMBER", "OF", "ATOMS">>

\* the sections LAMMPS writes, for one or two atoms, with either kind of box
DumpSections ==
    { DumpSection(<<"TIMESTEP">>, << <<0>> >>),
      DumpSection(NUMBER_OF_ATOMS, << <<1>> >>),
      DumpSection(NUMBER_OF_ATOMS, << <<2>> >>),
      DumpSection(<<"BOX", "BOUNDS", "pp", "pp", "pp">>,
                  << <<0, 10000>>, <<0, 10000>>, <<0, 10000>> >>),
      DumpSection(<<"BOX", "BOUNDS", "xy", "xz", "yz", "pp", "pp", "pp">>,
                  << <<0, 10000, 0>>, <<0, 10000, 0>>, <<0, 10000, 1736>> >>),
      DumpSection(<<"BOX", "BOUNDS", "xy", "xz", "yz", "pp", "pp", "pp">>,
                  << <<0, 10000, 0>>, <<0, 10000, 0>>, <<0, 10000, 0>> >>),
      DumpSection(<<"ATOMS", "id", "xu", "yu", "zu">>, << <<1, 0, 0, 0>> >>),
      DumpSection(<<"ATOMS", "id", "xu", "yu", "zu">>,
                  << <<1, 0, 0, 0>>, <<2, 1000, 1000, 1000>> >>) }

RECURSIVE Flatten(_)
Flatten(ss) == IF Len(ss) = 0 THEN <<>> ELSE ss[1] \o Flatten(Tail(ss))

\* the dump files: up to MaxSections sections, and the same files without
\* their first line
DumpFiles ==
    LET whole == {Flatten(ss) : ss \in SeqsUpTo(DumpSections, MaxSections)}
    IN  whole \cup {Tail(f) : f \in whole \ {<<>>}}

\* seamm.data.structure before the dump is read
Systems ==
    { [periodicity |-> p, n_atoms |-> n, cell |-> OldCell,
       coordinates |-> OldCoordinates(n)] : p \in {0, 3}, n \in {1, 2} }

\* words in section, for a run of whole words
Contains(name, words) ==
    \E i \in 1..(Len(name) - Len(words) + 1) :
        SubSeq(name, i, i + Len(words) - 1) = words

\* section.startswith('ATOMS'): the test that tells the section of the atoms
\* from the section of their number
IsAtomsSection(name) == Len(name) > 0 /\ name[1] = "ATOMS"

\* 'ATOMS' in section
HasAtoms(name) == Contains(name, <<"ATOMS">>)

Min(S) == CHOOSE m \in S : \A x \in S : m <= x

\* the exception the lines of a box raise: a line that is missing, or one
\* that does not split into as many numbers as are unpacked
BoxError(name, lines) ==
    LET want == IF Len(name) = 8 THEN 3 ELSE 2
        bad == {k \in 1..3 : Len(lines) < k \/ Len(lines[k]) # want}
    IN  IF bad = {} THEN "none"
        ELSE IF Len(lines) < Min(bad) THEN "IndexError" ELSE "ValueError"

\* the cell of a box section, of either format
BoxCell(name, lines) ==
    IF Len(name) = 8
    THEN LET xy == lines[1][3]
             xz == lines[2][3]
             yz == lines[3][3]
             xlo == lines[1][1] - Min({0, xy, xz, xy + xz})
             xhi == lines[1][2] - MaxOf({0, xy, xz, xy + xz})
             ylo == lines[2][1] - Min({0, yz})
             yhi == lines[2][2] - MaxOf({0, yz})
         IN  box_to_cell([lx |-> xhi - xlo, ly |-> yhi - ylo,
                          lz |-> lines[3][2] - lines[3][1],
                          xy |-> xy, xz |-> xz, yz |-> yz])
    ELSE [a |-> lines[1][2] - lines[1][1],
          b |-> lines[2][2] - lines[2][1],
          c |-> lines[3][2] - lines[3][1],
          alpha |-> 90, beta |-> 90, gamma |-> 90]

\* the exception the section NUMBER OF ATOMS raises
CountError(lines, n_atoms) ==
    IF Len(lines) = 0 THEN "IndexError"
    ELSE IF Len(lines[1]) # 1 THEN "ValueError"
    ELSE IF lines[1][1] # n_atoms THEN "RuntimeError"
    ELSE "none"

\* the exception the lines of atoms raise: a line that does not split into
\* id, x, y, z
RowsError(lines) ==
    IF \E i \in 1..Len(lines) : Len(lines[i]) # 4 THEN "ValueError" ELSE "none"

Rows(lines) == [i \in 1..Len(lines) |-> <<lines[i][2], lines[i][3], lines[i][4]>>]

\* what the end of a section does: the exception it raises, and cell and
\* xyz after it
EndSection(name, lines, n_atoms) ==
    IF Contains(name, <<"BOX", "BOUNDS">>)
    THEN [error |-> BoxError(name, lines),
          cell |-> IF BoxError(name, lines) = "none"
                   THEN [bound |-> TRUE, value |-> BoxCell(name, lines)]
                   ELSE cell,
          xyz |-> xyz]
    ELSE IF name = NUMBER_OF_ATOMS
    THEN [error |-> CountError(lines, n_atoms), cell |-> cell, xyz |-> xyz]
    ELSE IF HasAtoms(name)
    THEN [error |-> RowsError(lines),
          cell |-> cell,
          xyz |-> IF RowsError(lines) = "none" THEN xyz \o Rows(lines)
                  ELSE xyz]
    ELSE [error |-> "none", cell |-> cell, xyz |-> xyz]

\* the message of the RuntimeError for a first line that is not 'ITEM:'
FirstLineMessageNoFile(file, line) ==
    [text |-> "The first line is incorrect!", file |-> "", line |-> line]

FirstLineMessage(file, line) ==
    [text |-> "The first line is incorrect!", file |-> file, line |-> line]

\* the message of the RuntimeError for a wrong number of atoms
CountMessage ==
    [text |-> "Number of atoms has changed!", file |-> "", line |-> <<>>]

\* the two assignments that end read_dump, the cell (of a periodic structure)
\* after the coordinates
UpdateCoordinatesFirst(sys, cl, coordinates) ==
    IF sys.periodicity = 3 /\ ~cl.bound
    THEN [error |-> "UnboundLocalError",
          system |-> [sys EXCEPT !.coordinates = coordinates]]
    ELSE [error |-> "none",
          system |-> [sys EXCEPT
                         !.cell = IF sys.periodicity = 3 THEN cl.value ELSE @,
                         !.coordinates = coordinates]]

\* the two assignments that end read_dump: the cell (of a periodic structure),
\* then the coordinates
UpdateStructure(sys, cl, coordinates) ==
    IF sys.periodicity = 3 /\ ~cl.bound
    THEN [error |-> "UnboundLocalError", system |-> sys]
    ELSE [error |-> "none",
          system |-> [sys EXCEPT
                         !.cell = IF sys.periodicity = 3 THEN cl.value ELSE @,
                         !.coordinates = coordinates]]

DumpPaths == {"lammps_substep_1_iter_0.dump.1", "final.dump.2"}

\* read_dump is called for a dump file
InitDump ==
    /\ RunIdle
    /\ AnalysisIdle
    /\ CellIdle
    /\ StructureIdle
    /\ DialogIdle
    /\ rd_pc = "lines"
    /\ dumpfile \in DumpPaths
    /\ dump_lines \in DumpFiles
    /\ lineno = 0
    /\ section = <<>>
    /\ section_lines = <<>>
    /\ xyz = <<>>
    /\ cell = Unbound
    /\ system \in Systems
    /\ rd_error = "none"
    /\ rd_message = NoMessage

\* the first line of the file
FirstLine ==
    /\ rd_pc = "lines"
    /\ lineno = 0
    /\ Len(dump_lines) > 0
    /\ lineno' = 1
    /\ IF dump_lines[1].item
       THEN /\ section' = dump_lines[1].name
            /\ section_lines' = <<>>
            /\ UNCHANGED <<rd_pc, rd_error, rd_message>>
       ELSE /\ rd_pc' = "raised"
            /\ rd_error' = "RuntimeError"
            /\ rd_message' = FirstLineMessage(dumpfile, dump_lines[1].tokens)
            /\ UNCHANGED <<section, section_lines>>
    /\ UNCHANGED <<dumpfile, dump_lines, xyz, cell, system>>
    /\ UNCHANGED not_dump_vars

\* any other line: a line 'ITEM:' ends the section read so far
NextLine ==
    /\ rd_pc = "lines"
    /\ lineno > 0
    /\ lineno < Len(dump_lines)
    /\ lineno' = lineno + 1
    /\ LET line == dump_lines[lineno + 1]
           end == EndSection(section, section_lines, system.n_atoms)
       IN  IF ~line.item
           THEN /\ section_lines' = Append(section_lines, line.tokens)
                /\ UNCHANGED <<rd_pc, rd_error, rd_message, section, xyz,
                               cell>>
           ELSE IF end.error # "none"
           THEN /\ rd_pc' = "raised"
                /\ rd_error' = end.error
                /\ rd_message' = IF end.error = "RuntimeError"
                                 THEN CountMessage ELSE NoMessage
                /\ UNCHANGED <<section, section_lines, xyz, cell>>
           ELSE /\ xyz' = end.xyz
                /\ cell' = end.cell
                /\ section' = line.name
                /\ section_lines' = <<>>
                /\ UNCHANGED <<rd_pc, rd_error, rd_message>>
    /\ UNCHANGED <<dumpfile, dump_lines, system>>
    /\ UNCHANGED not_dump_vars

\* after the last line: the last section is cleaned up when it has 'ATOMS'
\* in its name, and the structure is updated
UpdateSystem ==
    /\ rd_pc = "lines"
    /\ lineno = Len(dump_lines)
    /\ LET atoms == HasAtoms(section)
           rows_error == IF atoms THEN RowsError(section_lines) ELSE "none"
           coordinates == IF atoms THEN xyz \o Rows(section_lines) ELSE xyz
       IN  IF rows_error # "none"
           THEN /\ rd_pc' = "raised"
                /\ rd_error' = rows_error
                /\ UNCHANGED <<xyz, system>>
           ELSE LET update == UpdateStructure(system, cell, coordinates)
                IN  /\ rd_pc' = IF update.error = "none"
                                THEN "returned" ELSE "raised"
                    /\ rd_error' = update.error
                    /\ xyz' = coordinates
                    /\ system' = update.system
    /\ UNCHANGED <<dumpfile, dump_lines, lineno, section, section_lines, cell,
                   rd_message>>
    /\ UNCHANGED not_dump_vars

NextDump ==
    \/ FirstLine
    \/ NextLine
    \/ UpdateSystem

SpecDump == InitDump /\ [][NextDump]_vars

(***************************************************************************)
(* structure_data: the box limits and the 'Dihedral Coeffs' lines.         *)
(* Lengths are whole numbers of thousandths, as for the cell.              *)
(***************************************************************************)
\* 'Some extra space....': 10.0 on each side
EXTRA_SPACE == 10000

\* eex['atoms']: x, y, z of each atom (the type index plays no part)
EexAtoms ==
    SeqsUpTo({<<x, y, 0>> : x \in {-2000, 0, 3000}, y \in {0, 1000}},
             MaxAtoms)

\* eex['torsion parameters']: the form, and Phi0 in degrees for torsion_1
TorsionParameters ==
    SeqsUpTo({[form |-> "torsion_1", Phi0 |-> 0],
              [form |-> "torsion_1", Phi0 |-> 90],
              [form |-> "torsion_1", Phi0 |-> 180],
              [form |-> "torsion_3", Phi0 |-> 0]}, MaxTorsionTypes)

\* the energy expressions: without cell, or periodic with one of two cells
Eexs ==
    { [periodicity |-> IF cl = NoCell THEN 0 ELSE 3, cell |-> cl,
       atoms |-> as, torsion_parameters |-> ts] :
        cl \in {NoCell,
                [a |-> 10000, b |-> 10000, c |-> 10000,
                 alpha |-> 90, beta |-> 90, gamma |-> 90],
                [a |-> 10000, b |-> 10000, c |-> 10000,
                 alpha |-> 60, beta |-> 60, gamma |-> 120]},
        as \in EexAtoms, ts \in TorsionParameters }

\* one pass of the loop over the atoms
AtomLimits(lim, at) ==
    LET xlo == IF at[1] < lim.xlo THEN at[1] ELSE lim.xlo
        xhi == IF at[1] > lim.xhi THEN at[1] ELSE xlo
        ylo == IF at[2] < lim.ylo THEN at[2] ELSE lim.ylo
        yhi == IF at[2] > lim.yhi THEN at[2] ELSE ylo
        zlo == IF at[3] < lim.zlo THEN at[3] ELSE lim.zlo
        zhi == IF at[3] > lim.zhi THEN at[3] ELSE zlo
    IN  [xlo |-> xlo, xhi |-> xhi, ylo |-> ylo, yhi |-> yhi,
         zlo |-> zlo, zhi |-> zhi]

\* d of a torsion_1 term, or the exception raised for its Phi0
TorsionSign(Phi0) ==
    IF Phi0 = 0 THEN "-1"
    ELSE IF Phi0 = 180 THEN "+1"
    ELSE "RuntimeError"

\* structure_data is called for an energy expression
InitStructure ==
    /\ RunIdle
    /\ AnalysisIdle
    /\ CellIdle
    /\ DumpIdle
    /\ DialogIdle
    /\ sd_pc = "box"
    /\ eex \in Eexs
    /\ atom = 0
    /\ limits = NoLimits
    /\ counter = 0
    /\ coeffs = <<>>
    /\ sd_error = "none"

\* 'Find the box limits': those of the cell, or the start of the loop over
\* the atoms with the first of them
BoxLimits ==
    /\ sd_pc = "box"
    /\ IF eex.periodicity = 3
       THEN IF MathDomainError(eex.cell)
            THEN /\ sd_pc' = "raised"
                 /\ sd_error' = "ValueError"
                 /\ UNCHANGED <<limits, atom, counter>>
            ELSE /\ limits' = [xlo |-> 0, xhi |-> cell_to_box(eex.cell).lx,
                               ylo |-> 0, yhi |-> cell_to_box(eex.cell).ly,
                               zlo |-> 0, zhi |-> cell_to_box(eex.cell).lz]
                 /\ sd_pc' = "coeffs"
                 /\ counter' = 1
                 /\ UNCHANGED <<atom, sd_error>>
       ELSE IF Len(eex.atoms) = 0
            THEN /\ sd_pc' = "raised"
                 /\ sd_error' = "IndexError"
                 /\ UNCHANGED <<limits, atom, counter>>
            ELSE /\ limits' = [xlo |-> eex.atoms[1][1], xhi |-> eex.atoms[1][1],
                               ylo |-> eex.atoms[1][2], yhi |-> eex.atoms[1][2],
                               zlo |-> eex.atoms[1][3], zhi |-> eex.atoms[1][3]]
                 /\ atom' = 1
                 /\ sd_pc' = "atoms"
                 /\ UNCHANGED <<counter, sd_error>>
    /\ UNCHANGED <<eex, coeffs>>
    /\ UNCHANGED not_structure_vars

\* the loop over the atoms, the first one included
NextAtom ==
    /\ sd_pc = "atoms"
    /\ atom <= Len(eex.atoms)
    /\ limits' = AtomLimits(limits, eex.atoms[atom])
    /\ atom' = atom + 1
    /\ UNCHANGED <<sd_pc, eex, counter, coeffs, sd_error>>
    /\ UNCHANGED not_structure_vars

\* after the loop: the extra space on each side
ExtraSpace ==
    /\ sd_pc = "atoms"
    /\ atom > Len(eex.atoms)
    /\ limits' = [xlo |-> limits.xlo - EXTRA_SPACE,
                  xhi |-> limits.xhi + EXTRA_SPACE,
                  ylo |-> limits.ylo - EXTRA_SPACE,
                  yhi |-> limits.yhi + EXTRA_SPACE,
                  zlo |-> limits.zlo - EXTRA_SPACE,
                  zhi |-> limits.zhi + EXTRA_SPACE]
    /\ sd_pc' = "coeffs"
    /\ counter' = 1
    /\ UNCHANGED <<eex, atom, coeffs, sd_error>>
    /\ UNCHANGED not_structure_vars

\* the loop over the torsion parameters: one line of 'Dihedral Coeffs'
DihedralCoeff ==
    /\ sd_pc = "coeffs"
    /\ counter <= Len(eex.torsion_parameters)
    /\ LET parameters == eex.torsion_parameters[counter]
           d == TorsionSign(parameters.Phi0)
       IN  IF parameters.form = "torsion_1"
           THEN IF d = "RuntimeError"
                THEN /\ sd_pc' = "raised"
                     /\ sd_error' = "RuntimeError"
                     /\ UNCHANGED <<counter, coeffs>>
                ELSE /\ coeffs' = Append(coeffs,
                                         [counter |-> counter,
                                          style |-> "harmonic", d |-> d])
                     /\ counter' = counter + 1
                     /\ UNCHANGED <<sd_pc, sd_error>>
           ELSE /\ coeffs' = Append(coeffs,
                                    [counter |-> counter,
                                     style |-> "class2", d |-> ""])
                /\ counter' = counter + 1
                /\ UNCHANGED <<sd_pc, sd_error>>
    /\ UNCHANGED <<eex, atom, limits>>
    /\ UNCHANGED not_structure_vars

\* the lines are returned
ReturnLines ==
    /\ sd_pc = "coeffs"
    /\ counter > Len(eex.torsion_parameters)
    /\ sd_pc' = "returned"
    /\ UNCHANGED <<eex, atom, limits, counter, coeffs, sd_error>>
    /\ UNCHANGED not_structure_vars

NextStructure ==
    \/ BoxLimits
    \/ NextAtom
    \/ ExtraSpace
    \/ DihedralCoeff
    \/ ReturnLines

SpecStructure == InitStructure /\ [][NextStructure]_vars

(***************************************************************************)
(* TkNVE.handle_dialog.  A widget gives back a value and its units, or,    *)
(* with no units, one of the words of the enumeration of its parameter.    *)
(***************************************************************************)
Parameter(value, units) == [value |-> value, units |-> units]

\* P[...].enumeration of timestep and of sampling
Enumeration == {"normal", "none"}

\* what the three widgets may hold
WidgetValues ==
    [time : {Parameter("10", "fs"), Parameter("1", "ps")},
     timestep : {Parameter("normal", ""), Parameter("1", "fs")},
     sampling : {Parameter("none", ""), Parameter("20", "fs")}]

\* the parameters of the node when the dialog is created
ParameterValues ==
    [time : {Parameter("10", "fs")},
     timestep : {Parameter("normal", "fs"), Parameter("2", "fs")},
     sampling : {Parameter("none", "fs"), Parameter("50", "fs")}]

\* the results a dialog may hand over: None, its buttons, and one that is
\* not known
Results == {"None", "Cancel", "Help", "OK", "Apply"}

\* result is None
IsNone(result_) == result_ = "None"

\* result is None or result == 'Cancel'
IsCancel(result_) == result_ = "None" \/ result_ = "Cancel"

\* a parameter after its widget was read: the word of the enumeration as
\* value, or the value and the units
SetParameter(parameter, tmp) ==
    IF tmp.units = "" /\ tmp.value \in Enumeration
    THEN [parameter EXCEPT !.value = tmp.value]
    ELSE Parameter(tmp.value, tmp.units)

\* the dialog was created for the parameters of the node and is shown
InitDialog ==
    /\ RunIdle
    /\ AnalysisIdle
    /\ CellIdle
    /\ DumpIdle
    /\ StructureIdle
    /\ P \in ParameterValues
    /\ widgets \in WidgetValues
    /\ dialog_active = TRUE
    /\ dialog_result = "unset"
    /\ dialog_calls = <<>>
    /\ dialog_error = "none"
    /\ n_dialogs = 0

\* handle_dialog(result), with the widgets holding what the user left
HandleDialog ==
    /\ n_dialogs < MaxDialogs
    /\ n_dialogs' = n_dialogs + 1
    /\ \E result_ \in Results, held \in WidgetValues :
          /\ dialog_result' = result_
          /\ widgets' = held
          /\ IF IsCancel(result_)
             THEN /\ dialog_active' = FALSE
                  /\ dialog_calls' = <<"deactivate">>
                  /\ dialog_error' = "none"
                  /\ UNCHANGED P
             ELSE IF result_ = "Help"
             THEN /\ dialog_calls' = <<>>
                  /\ dialog_error' = "none"
                  /\ UNCHANGED <<P, dialog_active>>
             ELSE IF result_ # "OK"
             THEN /\ dialog_active' = FALSE
                  /\ dialog_calls' = <<"deactivate", "raise">>
                  /\ dialog_error' = "RuntimeError"
                  /\ UNCHANGED P
             ELSE /\ dialog_active' = FALSE
                  /\ dialog_calls' = <<"deactivate", "set">>
                  /\ dialog_error' = "none"
                  /\ P' = [time |-> Parameter(held.time.value,
                                              held.time.units),
                           timestep |-> SetParameter(P.timestep,
                                                     held.timestep),
                           sampling |-> SetParameter(P.sampling,
                                                     held.sampling)]
    /\ UNCHANGED not_dialog_vars

NextDialog == HandleDialog

SpecDialog == InitDialog /\ [][NextDialog]_vars

Init ==
    /\ RunInit
    /\ AnalysisIdle
    /\ CellIdle
    /\ DumpIdle
    /\ StructureIdle
    /\ DialogIdle

(***************************************************************************)
(* Steps shared by the actions.                                            *)
(***************************************************************************)
None == Len(nodes) + 1

\* run() returns value
Return(value) ==
    /\ pc' = "returned"
    /\ retval' = value
    /\ error' = NoError

\* run() raises
Raise(type, file) ==
    /\ pc' = "raised"
    /\ retval' = "unset"
    /\ error' = [type |-> type, file |-> file]

Running(place) ==
    /\ pc' = place
    /\ UNCHANGED <<retval, error>>

\* a batch that takes no line
KeepInputData(lines) ==
    UNCHANGED <<input_data, initialization_header, aliased>>

\* input_data is changed in place: through the other name too when
\* initialization_header is the same list
SetInputData(lines) ==
    /\ input_data' = lines
    /\ initialization_header' =
          IF aliased THEN lines ELSE initialization_header
    /\ UNCHANGED aliased

\* an assignment that reaches the 'time' of every node
SetTimeOfAll(ns, id, value) ==
    [i \in 1..Len(ns) |-> [ns[i] EXCEPT !.time = value]]

\* node.parameters['time'].value = new_time.magnitude
SetTime(ns, id, value) == [ns EXCEPT ![id].time = value]

\* local.run(cmd=[..., '-in', <infile>], files=files, ...)
Call(kind, ids, iter, input) ==
    [kind |-> kind, ids |-> ids, iter |-> iter, input |-> input]

\* the files glob may find for the pattern of the batch ids, iter
GlobResults(ids, iter) ==
    DistinctSeqs({DumpFile(ids, iter, x) : x \in DumpSuffixes}, MaxFiles)

(***************************************************************************)
(* The Initialization node: its lines are the header and open the batch.   *)
(***************************************************************************)
Initialization ==
    /\ pc = "loop"
    /\ UNCHANGED not_run_vars
    /\ UNCHANGED infiles_written
    /\ node # None
    /\ nodes[node].kind = "init"
    /\ initialization_header' = InitializationInput
    /\ input_data' = input_data \o InitializationInput
    /\ aliased' = FALSE
    /\ history_nodes' = Append(history_nodes, node)
    /\ node' = node + 1
    /\ Running("loop")
    /\ UNCHANGED << flowchart, nodes, new_input_data, result, last_call,
                    accum_dump_filenames, accum_dump, last_snapshot, dump_read,
                    iteration, timestep, analysis, decision, loop_warnings,
                    past, n_exec, n_read, n_analyze >>

(***************************************************************************)
(* A node that is not run until its properties converge (its run_control   *)
(* says otherwise, or it has none): its lines join the batch.              *)
(***************************************************************************)
Accumulate ==
    /\ pc = "loop"
    /\ UNCHANGED not_run_vars
    /\ UNCHANGED infiles_written
    /\ node # None
    /\ nodes[node].kind = "fixed"
    /\ new_input_data' = GetInput(node, nodes[node])
    /\ SetInputData(input_data \o GetInput(node, nodes[node]))
    /\ loop_warnings' = <<>>
    /\ history_nodes' = Append(history_nodes, node)
    /\ node' = node + 1
    /\ Running("loop")
    /\ UNCHANGED << flowchart, nodes, result, last_call, accum_dump_filenames,
                    accum_dump, last_snapshot, dump_read, iteration, timestep,
                    analysis, decision, past, n_exec, n_read, n_analyze >>

(***************************************************************************)
(* A node run until its properties converge: the batch accumulated so far  *)
(* is executed, and glob lists its dump files.                             *)
(***************************************************************************)
AccumulatedBatch ==
    /\ pc = "loop"
    /\ UNCHANGED not_run_vars
    /\ node # None
    /\ nodes[node].kind = "conv"
    /\ new_input_data' = GetInput(node, nodes[node])
    /\ LET pattern == DumpFile(history_nodes, 0, <<"*">>)
           lines == Append(input_data, WriteDump(pattern))
       IN  /\ SetInputData(lines)
           /\ accum_dump' = pattern
           /\ last_call' = Call("accumulated", history_nodes, 0, lines)
           /\ infiles_written' =
                 Append(infiles_written, InFile(history_nodes, 0))
    /\ n_exec' = n_exec + 1
    /\ \E r \in {"None", "ok"} :
          /\ result' = r
          /\ IF ExecFailed(r)
             THEN /\ Return("None")
                  /\ UNCHANGED accum_dump_filenames
             ELSE /\ Running("accum_glob")
                  /\ accum_dump_filenames' \in GlobResults(history_nodes, 0)
    /\ loop_warnings' = <<>>
    /\ UNCHANGED << flowchart, nodes, node, history_nodes, last_snapshot,
                    dump_read, iteration, timestep, analysis, decision,
                    past, n_read, n_analyze >>

(***************************************************************************)
(* The dump files of the batch are gone through, the dump to restart from  *)
(* is read into the structure, and the loop of the node is entered.        *)
(***************************************************************************)
ResolveCheckpoint(place) ==
    LET bad == FirstMalformed(accum_dump_filenames) IN
    IF NoCheckpoint(accum_dump_filenames)
    THEN /\ Raise("FileNotFoundError", accum_dump)
         /\ UNCHANGED <<accum_dump, last_snapshot, dump_read, n_read>>
    ELSE IF bad # 0
    THEN /\ Raise("Exception", accum_dump_filenames[bad])
         /\ accum_dump' = accum_dump_filenames[bad]
         /\ last_snapshot' =
               LastSnapshot(SubSeq(accum_dump_filenames, 1, bad - 1),
                            last_snapshot)
         /\ UNCHANGED <<dump_read, n_read>>
    ELSE /\ last_snapshot' = LastSnapshot(accum_dump_filenames, last_snapshot)
         /\ accum_dump' =
               ResolvedDump(accum_dump_filenames, accum_dump, last_snapshot)
         /\ n_read' = n_read + 1
         /\ \E read \in BOOLEAN :
               IF read
               THEN /\ dump_read' = accum_dump'
                    /\ Running(place)
               ELSE /\ Raise("RuntimeError", accum_dump')
                    /\ UNCHANGED dump_read

AccumulatedCheckpoint ==
    /\ pc = "accum_glob"
    /\ UNCHANGED not_run_vars
    /\ UNCHANGED infiles_written
    /\ ResolveCheckpoint("iterate")
    /\ iteration' = IF pc' = "iterate" THEN 0 ELSE iteration
    /\ timestep' = IF pc' = "iterate"
                   THEN TimestepFs(nodes[node].timestep) ELSE timestep
    /\ loop_warnings' = IF pc' = "iterate" THEN <<>> ELSE loop_warnings
    /\ UNCHANGED << flowchart, nodes, node, input_data, initialization_header,
                    aliased, history_nodes, new_input_data, result, last_call,
                    accum_dump_filenames, analysis, decision, past,
                    n_exec, n_analyze >>

(***************************************************************************)
(* One pass of the loop as far as the analysis: the batch of the node is   *)
(* written to restart from the last dump, executed, and its dump is read.  *)
(***************************************************************************)
ExtensionBatch ==
    /\ pc = "iterate"
    /\ UNCHANGED not_run_vars
    /\ iteration <= MaxIter
    /\ LET nsteps == RoundDiv(nodes[node].time, timestep)
           curr_dump == DumpFile(<<node>>, iteration, StrOfInt(nsteps))
           lines == initialization_header
                      \o <<ReadDump(accum_dump, last_snapshot)>>
                      \o new_input_data
                      \o <<WriteDump(curr_dump)>>
       IN  /\ last_call' = Call("extension", <<node>>, iteration, lines)
           /\ infiles_written' =
                 Append(infiles_written, InFile(<<node>>, iteration))
           /\ n_exec' = n_exec + 1
           /\ \E r \in {"None", "ok"} :
                 /\ result' = r
                 /\ IF ExecFailed(r)
                    THEN /\ Return("None")
                         /\ new_input_data' = lines
                         /\ UNCHANGED <<accum_dump, last_snapshot, dump_read,
                                        n_read>>
                    ELSE /\ n_read' = n_read + 1
                         /\ \E read \in BOOLEAN :
                               IF read
                               THEN /\ dump_read' = curr_dump
                                    /\ accum_dump' = curr_dump
                                    /\ last_snapshot' = SplitExt(curr_dump.suffix)
                                    /\ new_input_data' =
                                          GetInput(node, nodes[node])
                                    /\ Running("analyze")
                               ELSE /\ Raise("RuntimeError", curr_dump)
                                    /\ new_input_data' = lines
                                    /\ UNCHANGED <<accum_dump, last_snapshot,
                                                   dump_read>>
    /\ UNCHANGED << flowchart, nodes, node, input_data, initialization_header,
                    aliased, history_nodes, accum_dump_filenames, iteration,
                    timestep, analysis, decision, loop_warnings, past,
                    n_analyze >>

\* is a warning of the kind set for a column that has results
AnyShort(a) == \E p \in Properties : a[p].present /\ a[p].short
AnyFew(a) == \E p \in Properties : a[p].present /\ a[p].few

(***************************************************************************)
(* The rest of the pass: the trajectory of the node is analyzed, and the   *)
(* loop ends or the run is doubled for the next pass.                      *)
(***************************************************************************)
AnalyzeAndDecide ==
    /\ pc = "analyze"
    /\ UNCHANGED not_run_vars
    /\ UNCHANGED infiles_written
    /\ n_analyze' = n_analyze + 1
    /\ \/ \* glob finds no trajectory file: analyze has no data to return
          /\ Raise("UnboundLocalError", NoFile)
          /\ decision' = "none"
          /\ UNCHANGED << nodes, node, input_data, initialization_header,
                          aliased, history_nodes, new_input_data, iteration,
                          analysis, loop_warnings >>
       \/ \E trj \in Trajectories :
             LET a == AnalyzeTrajectory(trj) IN
             /\ analysis' = a
             /\ loop_warnings' =
                   Append(loop_warnings,
                          [short |-> AnyShort(a), few |-> AnyFew(a)])
             /\ IF ~a["Epe"].present
                THEN /\ Raise("KeyError", NoFile)
                     /\ decision' = "none"
                     /\ UNCHANGED << nodes, node, input_data,
                                     initialization_header, aliased,
                                     history_nodes, new_input_data,
                                     iteration >>
                ELSE IF Converged(a)
                THEN /\ decision' = "CONVERGED"
                     /\ history_nodes' = <<>>
                     /\ input_data' = initialization_header
                     /\ aliased' = TRUE
                     /\ node' = node + 1
                     /\ Running("loop")
                     /\ UNCHANGED << nodes, initialization_header,
                                     new_input_data, iteration >>
                ELSE /\ decision' = "EXTEND"
                     /\ new_input_data' = DoubleRun(new_input_data)
                     /\ nodes' = SetTime(nodes, node,
                                         NewNsteps(new_input_data) * timestep)
                     /\ iteration' = iteration + 1
                     /\ Running("iterate")
                     /\ UNCHANGED << node, input_data, initialization_header,
                                     aliased, history_nodes >>
    /\ UNCHANGED << flowchart, result, last_call, accum_dump_filenames,
                    accum_dump, last_snapshot, dump_read, timestep, past,
                    n_exec, n_read >>

(***************************************************************************)
(* The end of the flowchart with a chain history: the accumulated batch    *)
(* is executed, and glob lists its dump files.                             *)
(***************************************************************************)
FinalBatch ==
    /\ pc = "loop"
    /\ UNCHANGED not_run_vars
    /\ node = None
    /\ Len(history_nodes) > 0
    /\ LET pattern == DumpFile(history_nodes, 0, <<"*">>)
           lines == Append(input_data, WriteDump(pattern))
       IN  /\ SetInputData(lines)
           /\ accum_dump' = pattern
           /\ last_call' = Call("final", history_nodes, 0, lines)
           /\ infiles_written' =
                 Append(infiles_written, InFile(history_nodes, 0))
    /\ n_exec' = n_exec + 1
    /\ \E r \in {"None", "ok"} :
          /\ result' = r
          /\ IF ExecFailed(r)
             THEN /\ Return("None")
                  /\ UNCHANGED accum_dump_filenames
             ELSE /\ Running("final_glob")
                  /\ accum_dump_filenames' \in GlobResults(history_nodes, 0)
    /\ loop_warnings' = <<>>
    /\ UNCHANGED << flowchart, nodes, node, history_nodes, new_input_data,
                    last_snapshot, dump_read, iteration, timestep, analysis,
                    decision, past, n_read, n_analyze >>

FinalCheckpoint ==
    /\ pc = "final_glob"
    /\ UNCHANGED not_run_vars
    /\ UNCHANGED infiles_written
    /\ ResolveCheckpoint("final_analyze")
    /\ past' = IF pc' = "final_analyze" THEN 1 ELSE past
    /\ UNCHANGED << flowchart, nodes, node, input_data, initialization_header,
                    aliased, history_nodes, new_input_data, result, last_call,
                    accum_dump_filenames, iteration, timestep, analysis,
                    decision, loop_warnings, n_exec, n_analyze >>

\* super().run(printer): the node that follows the LAMMPS step, if any
NextNodes == {"node", "None"}

(***************************************************************************)
(* The nodes of the chain history are analyzed one after the other, and    *)
(* run() returns after the last.  No trajectory file is written for the    *)
(* Initialization node.                                                    *)
(***************************************************************************)
FinalAnalyze ==
    /\ pc = "final_analyze"
    /\ UNCHANGED not_run_vars
    /\ UNCHANGED infiles_written
    /\ past <= Len(history_nodes)
    /\ n_analyze' = n_analyze + 1
    /\ decision' = "none"
    /\ \/ /\ Raise("UnboundLocalError", NoFile)
          /\ UNCHANGED <<analysis, past>>
       \/ /\ nodes[history_nodes[past]].kind # "init"
          /\ \E trj \in Trajectories : analysis' = AnalyzeTrajectory(trj)
          /\ past' = past + 1
          /\ IF past = Len(history_nodes)
             THEN \E next_node \in NextNodes : Return(next_node)
             ELSE Running("final_analyze")
    /\ UNCHANGED << flowchart, nodes, node, input_data, initialization_header,
                    aliased, history_nodes, new_input_data, result, last_call,
                    accum_dump_filenames, accum_dump, last_snapshot, dump_read,
                    iteration, timestep, loop_warnings, n_exec, n_read >>

(***************************************************************************)
(* The end of the flowchart with an empty chain history.                   *)
(***************************************************************************)
Finish ==
    /\ pc = "loop"
    /\ UNCHANGED not_run_vars
    /\ UNCHANGED infiles_written
    /\ node = None
    /\ Len(history_nodes) = 0
    /\ \E next_node \in NextNodes : Return(next_node)
    /\ loop_warnings' = <<>>
    /\ UNCHANGED << flowchart, nodes, node, input_data, initialization_header,
                    aliased, history_nodes, new_input_data, result, last_call,
                    accum_dump_filenames, accum_dump, last_snapshot, dump_read,
                    iteration, timestep, analysis, decision, past,
                    n_exec, n_read, n_analyze >>

(***************************************************************************)
(* Properties.                                                             *)
(***************************************************************************)
RECURSIVE Pow2(_)
Pow2(k) == IF k = 0 THEN 1 ELSE 2 * Pow2(k - 1)

\* no warning is set for any column that has results
AllClear(a) == \A p \in Properties : a[p].present => ~a[p].short /\ ~a[p].few

Lines(call, op) == {i \in 1..Len(call.input) : call.input[i].op = op}

\* the step count the flowchart asked of a node
RequestedSteps(id) ==
    RoundDiv(flowchart[id].time, TimestepFs(flowchart[id].timestep))

\* the step count a dump file is named for: the integer after the last dot
HasStepCount(file) == IntParses(SplitExt(file.suffix))
StepCount(file) == DecimalValue(SplitExt(file.suffix))

MaxStepCount(filenames) ==
    MaxOf({StepCount(filenames[i]) : i \in 1..Len(filenames)})

\* every column of the trajectory has results, and no warning is set
AllReportedClear(a) ==
    \A p \in Properties : a[p].present /\ ~a[p].short /\ ~a[p].few

Next ==
    \/ Initialization
    \/ Accumulate
    \/ AccumulatedBatch
    \/ AccumulatedCheckpoint
    \/ ExtensionBatch
    \/ AnalyzeAndDecide
    \/ FinalBatch
    \/ FinalCheckpoint
    \/ FinalAnalyze
    \/ Finish

Spec == Init /\ [][Next]_vars

\* the lines of an extension batch that follow its read_dump: those of the
\* node itself
OwnLines(call) ==
    LET rd == Lines(call, "read_dump")
    IN  IF rd = {} THEN <<>>
        ELSE SubSeq(call.input, MaxOf(rd) + 1, Len(call.input))

\* a dump to restart from has been chosen among the files of the last batch
CheckpointChosen ==
    /\ last_call.kind \in {"accumulated", "final"}
    /\ pc \in {"iterate", "final_analyze"}

\* C1: after the analysis of an extension batch the segment is accepted as
\* converged if and only if no analyzed property, whichever it is, has its
\* short_production_warning or its few_neff_warning set.
C1_AcceptedIffAllClear ==
    decision # "none" => (decision = "CONVERGED" <=> AllClear(analysis))

\* C2: the dump of a batch that is read and restarted from is the one named
\* for the largest step count among the files glob found, and the step count
\* kept with it is that largest one, in whatever order glob lists the files.
C2_LatestCheckpointRead ==
    CheckpointChosen =>
        /\ \E i \in 1..Len(accum_dump_filenames) :
              dump_read = accum_dump_filenames[i]
        /\ accum_dump = dump_read
        /\ StepCount(dump_read) = MaxStepCount(accum_dump_filenames)
        /\ DecimalValue(last_snapshot) = MaxStepCount(accum_dump_filenames)

\* C3: once a segment is accepted as converged the chain history is empty,
\* and the next batch executed, for a following segment or at the end of
\* the flowchart, restarts from the last dump of the converged segment.
C3_RestartsFromConvergedCheckpoint ==
    /\ ( /\ decision = "CONVERGED"
         /\ pc = "loop"
         /\ last_call.kind = "extension"
         /\ node = last_call.ids[1] + 1 ) => history_nodes = <<>>
    /\ (decision = "CONVERGED" /\ pc \in {"accum_glob", "final_glob"}) =>
          \E i \in Lines(last_call, "read_dump") :
              last_call.input[i] =
                  ReadDump(dump_read, SplitExt(dump_read.suffix))

\* C4: when the first analysis of a segment has a few_neff_warning set and
\* its second analysis, after one doubling, has results without any warning,
\* the loop ends there: two extension batches (iterations 0 and 1) were
\* executed, the chain history is empty and the next node is the current one.
C4_TwoPassScenario ==
    ( /\ Len(loop_warnings) = 2
      /\ loop_warnings[1].few
      /\ AllReportedClear(analysis) ) =>
        /\ decision = "CONVERGED"
        /\ last_call.kind = "extension" /\ last_call.iter = 1
        /\ iteration = 1
        /\ n_exec >= 3
        /\ history_nodes = <<>>
        /\ pc = "loop"
        /\ node = last_call.ids[1] + 1

\* the scenario has happened: a few_neff_warning, a doubling, no warning
C4_Witness ==
    /\ Len(loop_warnings) = 2
    /\ loop_warnings[1].few /\ ~loop_warnings[1].short
    /\ AllReportedClear(analysis)
    /\ decision = "CONVERGED"
    /\ last_call.iter = 1

\* C5: the extension batch of iteration k runs N * 2^k steps and writes the
\* dump named for N * 2^k steps, N being the step count the flowchart asked
\* for; an extension doubles the run line, sets the time parameter to the
\* doubled step count times the time step and adds one to the iteration.
C5_ExtendDoubles ==
    /\ last_call.kind = "extension" =>
          LET id == last_call.ids[1]
              want == RequestedSteps(id) * Pow2(last_call.iter)
              own == OwnLines(last_call)
          IN  /\ \E i \in 1..Len(own) : own[i].op = "run"
              /\ \A i \in 1..Len(own) : own[i].op = "run" => own[i].n = want
              /\ own[Len(own)] =
                    WriteDump(DumpFile(<<id>>, last_call.iter, StrOfInt(want)))
    /\ (decision = "EXTEND" /\ pc = "iterate") =>
          LET want == RequestedSteps(node) * Pow2(iteration)
          IN  /\ iteration = last_call.iter + 1
              /\ nodes[node].time = want * timestep
              /\ \A i \in 1..Len(new_input_data) :
                    new_input_data[i].op = "run" => new_input_data[i].n = want

\* an extension at iteration 1 or later has been decided: batches with
\* 2N steps or more are executed and doubled again
C5_Witness ==
    /\ decision = "EXTEND"
    /\ pc = "iterate"
    /\ last_call.kind = "extension"
    /\ last_call.iter >= 1
    /\ RequestedSteps(node) > 0

\* C6: an extension batch restarts from the dump of the execution before
\* it, with the step count of that very dump: at iteration 0 the dump with
\* the largest step count of the accumulated batch, at iteration k >= 1 the
\* dump of iteration k - 1; and it writes one dump of its own,
\* <base of the node>_iter_<k>.dump.<steps it runs>.
C6_RestartsFromPrecedingDump ==
    last_call.kind = "extension" =>
        LET id == last_call.ids[1]
            k == last_call.iter
            steps == RequestedSteps(id)
            reads == Lines(last_call, "read_dump")
            writes == {i \in Lines(last_call, "write_dump") :
                          last_call.input[i].file.ids = <<id>>}
        IN  /\ Cardinality(reads) = 1
            /\ \A i \in reads :
                  IF k = 0
                  THEN /\ \E j \in 1..Len(accum_dump_filenames) :
                             last_call.input[i].file = accum_dump_filenames[j]
                       /\ StepCount(last_call.input[i].file) =
                             MaxStepCount(accum_dump_filenames)
                       /\ DecimalValue(last_call.input[i].step) =
                             MaxStepCount(accum_dump_filenames)
                  ELSE last_call.input[i] =
                          ReadDump(DumpFile(<<id>>, k - 1,
                                            StrOfInt(steps * Pow2(k - 1))),
                                   StrOfInt(steps * Pow2(k - 1)))
            /\ Cardinality(writes) = 1
            /\ \A i \in writes :
                  last_call.input[i].file =
                      DumpFile(<<id>>, k, StrOfInt(steps * Pow2(k)))

\* C7: once the engine has returned the failure sentinel nothing more is
\* done: no engine invocation, no dump read, no analysis, and run() stays
\* returned.
C7_NothingAfterSentinel ==
    [][result = "None" =>
          /\ pc = "returned"
          /\ UNCHANGED <<pc, n_exec, n_read, n_analyze, dump_read>>]_vars

\* the sentinel came for an extension batch, after an accumulated batch had
\* been executed and its dump read
C7_Witness ==
    /\ result = "None"
    /\ last_call.kind = "extension"
    /\ pc = "returned"
    /\ n_exec >= 2 /\ n_read >= 1

\* C8: when the engine returns the failure sentinel, run() ends with an
\* error, which a caller can tell from a run that completed.
C8_SentinelIsAnError ==
    result = "None" => (pc = "raised" /\ error.type # "none")

\* C9: when glob finds no dump file for an accumulated or final batch that
\* was executed, run() raises FileNotFoundError at once: no dump is read, no
\* batch executed and no node analyzed, then or later.
C9_NoCheckpointIsFatal ==
    [][ /\ (pc \in {"accum_glob", "final_glob"} /\ accum_dump_filenames = <<>>)
           => /\ pc' = "raised"
              /\ error'.type = "FileNotFoundError"
              /\ UNCHANGED <<n_exec, n_read, n_analyze, dump_read>>
        /\ pc = "raised" => UNCHANGED <<n_exec, n_read, n_analyze, dump_read>>
      ]_vars

\* run() has raised FileNotFoundError for a batch without dump files
C9_Witness ==
    /\ pc = "raised"
    /\ error.type = "FileNotFoundError"
    /\ accum_dump_filenames = <<>>
    /\ result = "ok"
    /\ n_read = 0

\* C10: when one of the files found is not named for an integer step count,
\* run() raises an exception that names such a file, whatever the other
\* files are, and no dump of the batch is chosen or read.
C10_MalformedSuffixIsFatal ==
    LET malformed == {i \in 1..Len(accum_dump_filenames) :
                          ~HasStepCount(accum_dump_filenames[i])}
    IN  ( /\ last_call.kind \in {"accumulated", "final"}
          /\ result = "ok"
          /\ pc \notin {"accum_glob", "final_glob"}
          /\ malformed # {} ) =>
            /\ pc = "raised"
            /\ error.type = "Exception"
            /\ \E i \in malformed : error.file = accum_dump_filenames[i]
            /\ \A i \in 1..Len(accum_dump_filenames) :
                  dump_read # accum_dump_filenames[i]

\* run() has raised for a malformed name listed after a well-formed one
C10_Witness ==
    /\ pc = "raised"
    /\ error.type = "Exception"
    /\ Len(accum_dump_filenames) = 2
    /\ HasStepCount(accum_dump_filenames[1])
    /\ error.file = accum_dump_filenames[2]
    /\ last_call.kind = "accumulated"

\* C11: a node that is not run until convergence only joins the batch: its
\* lines are appended once to the pending batch and the node to the chain
\* history, which stays in flowchart order, and the engine is not invoked;
\* the engine is invoked only for a node run until convergence or at the end
\* of the flowchart.
C11_FixedSegmentOnlyAccumulates ==
    [][ /\ (pc = "loop" /\ node # None /\ nodes[node].kind = "fixed") =>
              /\ input_data' = input_data \o GetInput(node, nodes[node])
              /\ history_nodes' = Append(history_nodes, node)
              /\ \A i \in 1..(Len(history_nodes') - 1) :
                    history_nodes'[i] < history_nodes'[i + 1]
              /\ n_exec' = n_exec
              /\ last_call' = last_call
              /\ pc' = "loop"
        /\ n_exec' # n_exec => (node = None \/ nodes[node].kind = "conv")
      ]_vars

\* two nodes in a row have joined the batch and no batch was executed yet
C11_Witness ==
    /\ pc = "loop"
    /\ Len(history_nodes) = 3
    /\ nodes[history_nodes[2]].kind = "fixed"
    /\ nodes[history_nodes[3]].kind = "fixed"
    /\ Len(input_data) = 5
    /\ n_exec = 0

\* C12: at the end of the flowchart a non-empty chain history is executed as
\* one final batch; the dump read is the one with the largest step count
\* among those glob found; then every node of the history is analyzed once
\* and run() returns, whatever the analyses report, without any extension
\* batch; with an empty history no final batch is executed.
C12_FinalFlush ==
    /\ (last_call.kind = "final" /\ pc \in {"final_analyze", "returned"}
          /\ result = "ok") =>
          /\ \E i \in 1..Len(accum_dump_filenames) :
                dump_read = accum_dump_filenames[i]
          /\ StepCount(dump_read) = MaxStepCount(accum_dump_filenames)
          /\ last_call.ids = history_nodes
          /\ Len(history_nodes) > 0
    /\ (last_call.kind = "final" /\ pc = "returned" /\ result = "ok") =>
          past = Len(history_nodes) + 1
    /\ (pc = "returned" /\ history_nodes = <<>>) => last_call.kind # "final"
    /\ pc = "final_analyze" => last_call.kind = "final"

\* C13: the loop of a node run until convergence has no ceiling on its
\* iterations.  An analysis ends the pass in one of three ways: run() raises;
\* the two warnings of the potential energy are false and run() goes on to
\* the next node; or one of them is set and the loop extends, iteration + 1.
\* Whatever the iteration, the next extension batch can be executed.
C13_NoIterationCap ==
    /\ []((pc = "iterate" /\ iteration <= MaxIter) => ENABLED ExtensionBatch)
    /\ [][(pc = "analyze" /\ pc' # "raised") =>
              LET epe == analysis'["Epe"]
                  clear == epe.present /\ ~epe.short /\ ~epe.few
              IN  /\ n_analyze' = n_analyze + 1
                  /\ clear => /\ pc' = "loop"
                              /\ node' = node + 1
                              /\ iteration' = iteration
                  /\ ~clear => /\ pc' = "iterate"
                               /\ node' = node
                               /\ iteration' = iteration + 1
         ]_vars

\* the loop has extended at every iteration the model follows
C13_Witness ==
    /\ pc = "iterate"
    /\ iteration = MaxIter + 1
    /\ decision = "EXTEND"
    /\ last_call.iter = MaxIter

\* C14: within one run no input file of a batch, and so no base of its dump
\* files, is written twice: every engine invocation has a name
\* lammps_substep_<ids>_iter_<n> that no invocation before it had, also when
\* nodes run until convergence follow one another.
C14_FilesNeverRewritten ==
    \A i, j \in 1..Len(infiles_written) :
        i # j => infiles_written[i] # infiles_written[j]

\* C15: an analysis that passes over a column without independent samples,
\* whichever column it is, is not fatal: the pass of the loop still takes
\* its decision, to end the loop or to extend it, and run() does not raise.
C15_SkippedPropertyNotFatal ==
    [][ ( /\ pc = "analyze"
          /\ Len(loop_warnings') = Len(loop_warnings) + 1
          /\ \E p \in Properties : ~analysis'[p].present ) =>
            /\ pc' \in {"loop", "iterate"}
            /\ decision' \in {"CONVERGED", "EXTEND"}
      ]_vars

\* a column the loop has gone through and pymbar found rows in
Analyzed(p) ==
    /\ \E i \in 1..Len(Columns) : Columns[i] = p /\ i < column
    /\ stats[p].n > 0

\* C16: every column that is analyzed and not passed over has its
\* few_neff_warning set exactly when it has fewer than 100 independent
\* samples, and that number is what n_sample reports.
C16_FewNeffThreshold ==
    \A p \in Properties :
        Analyzed(p) =>
            /\ results[p].present
            /\ results[p].n_sample = stats[p].n
            /\ results[p].few <=> stats[p].n < 100

\* one column has 99 samples and the warning, the other 100 and none
C16_Witness ==
    /\ an_pc = "returned"
    /\ stats["Epe"].n = 99 /\ results["Epe"].few
    /\ stats["Etot"].n = 100 /\ ~results["Etot"].few

\* C17: every column that is analyzed and not passed over has its
\* short_production_warning set exactly when fewer than 10,000 rows follow
\* the row equilibration ends at, and the autocorrelation function is
\* computed exactly when the warning is not set.
C17_ShortProductionThreshold ==
    \A p \in Properties :
        Analyzed(p) =>
            /\ results[p].short <=> (n_t - stats[p].conv) < 10000
            /\ results[p].have_acf <=> ~results[p].short

\* one column has 9,999 rows after equilibration, the other 10,000
C17_Witness ==
    /\ an_pc = "returned"
    /\ n_t - stats["Epe"].conv = 9999
    /\ results["Epe"].short /\ ~results["Epe"].have_acf
    /\ n_t - stats["Etot"].conv = 10000
    /\ ~results["Etot"].short /\ results["Etot"].have_acf

\* the unit of a time by the boundaries 4 * 10^9, 4 * 10^6 and 4 * 10^3 fs
UnitsByFour(t) ==
    IF AtLeastKfs(t, 4000000) THEN "ms"
    ELSE IF AtLeastKfs(t, 4000) THEN "ns"
    ELSE IF AtLeastKfs(t, 4) THEN "ps"
    ELSE "fs"

\* C18: the convergence time and the autocorrelation time of every column
\* are reported in ms from 4 * 10^9 fs, in ns from 4 * 10^6 fs, in ps from
\* 4 * 10^3 fs, and in fs below.
C18_UnitBoundaries ==
    \A p \in Properties :
        Analyzed(p) =>
            /\ results[p].conv_units = UnitsByFour(T0(dt_fs, stats[p].conv))
            /\ results[p].tau_units = UnitsByFour(Tau(dt_fs, stats[p].g))

\* two lengths are equal to five thousandths
Close(x, y) == Abs(x - y) <= 5

SameCell(c1, c2) ==
    /\ Close(c1.a, c2.a) /\ Close(c1.b, c2.b) /\ Close(c1.c, c2.c)
    /\ c1.alpha = c2.alpha /\ c1.beta = c2.beta /\ c1.gamma = c2.gamma

\* C19: for the cell (10, 10, 10, 90, 90, 90) cell_to_box gives the tilt
\* factors xy = xz = yz = 0 and box_to_cell of that box gives the cell back,
\* angles included; for the cell (10, 10, 10, 80, 90, 90) box_to_cell of
\* cell_to_box gives the cell back, its length a = 10 included.
C19_CellRoundTrip ==
    LET cubic == [a |-> 10000, b |-> 10000, c |-> 10000,
                  alpha |-> 90, beta |-> 90, gamma |-> 90]
        tilted == [a |-> 10000, b |-> 10000, c |-> 10000,
                   alpha |-> 80, beta |-> 90, gamma |-> 90]
    IN  /\ (cell_in = cubic /\ cell_pc \in {"box", "back"}) =>
              box.xy = 0 /\ box.xz = 0 /\ box.yz = 0
        /\ (cell_in \in {cubic, tilted} /\ cell_pc = "back") =>
              SameCell(cell_out, cell_in)

\* the file declares, in a section NUMBER OF ATOMS, a number of atoms that is
\* not the number of atoms of the structure
CountMismatch(i) ==
    /\ i < Len(dump_lines)
    /\ dump_lines[i].item
    /\ dump_lines[i].name = NUMBER_OF_ATOMS
    /\ ~dump_lines[i + 1].item
    /\ Len(dump_lines[i + 1].tokens) = 1
    /\ dump_lines[i + 1].tokens[1] # system.n_atoms

\* C20: when the dump file declares a number of atoms other than that of the
\* structure, in whatever section of the file (the last one included),
\* read_dump never returns: it is reading a line of the file, or the
\* clean-up is still ahead, or it has raised, and the cell and the coordinates
\* of the structure stay as they were.
C20_CountMismatchIsFatal ==
    (\E i \in 1..Len(dump_lines) : CountMismatch(i)) =>
        /\ rd_pc \in {"lines", "raised"}
        /\ rd_pc = "lines" => lineno <= Len(dump_lines)
        /\ system.cell = OldCell
        /\ system.coordinates = OldCoordinates(system.n_atoms)

\* the wrong number of atoms stands in the last section, after the atoms were
\* read, and read_dump has raised
C20_Witness ==
    /\ Len(dump_lines) >= 2
    /\ CountMismatch(Len(dump_lines) - 1)
    /\ lineno = Len(dump_lines)
    /\ xyz # <<>>
    /\ rd_pc = "raised"
    /\ rd_error = "ValueError"

\* the first line of the dump file is not a line 'ITEM:'
BadFirstLine == Len(dump_lines) > 0 /\ ~dump_lines[1].item

\* C21: when the first line of the dump file does not start with 'ITEM:',
\* read_dump raises a RuntimeError whose message names the path of the dump
\* file, as soon as that line is read: no other line is read, nothing is
\* kept of the file, and the structure is as it was.
C21_BadFirstLineIsAttributed ==
    (BadFirstLine /\ lineno > 0) =>
        /\ rd_pc = "raised"
        /\ rd_error = "RuntimeError"
        /\ rd_message.file = dumpfile
        /\ rd_message.line = dump_lines[1].tokens
        /\ lineno = 1
        /\ section_lines = <<>>
        /\ xyz = <<>>
        /\ ~cell.bound
        /\ system \in Systems

\* a dump file of several lines whose first line is not 'ITEM:' was refused
C21_Witness ==
    /\ BadFirstLine
    /\ Len(dump_lines) > 2
    /\ rd_pc = "raised"
    /\ rd_message.file = dumpfile

\* the two sections of the box of bounds 0 to 10 along each axis:
\* the axis-aligned one, or the triclinic one with the three tilt factors 0
SameBoxSections ==
    { DumpSection(<<"BOX", "BOUNDS", "pp", "pp", "pp">>,
                  << <<0, 10000>>, <<0, 10000>>, <<0, 10000>> >>),
      DumpSection(<<"BOX", "BOUNDS", "xy", "xz", "yz", "pp", "pp", "pp">>,
                  << <<0, 10000, 0>>, <<0, 10000, 0>>, <<0, 10000, 0>> >>) }

\* line i starts the last box section of the file, and another section
\* follows it
LastBoxAt(i) ==
    /\ i + 4 <= Len(dump_lines)
    /\ dump_lines[i].item
    /\ Contains(dump_lines[i].name, <<"BOX", "BOUNDS">>)
    /\ \A j \in (i + 1)..Len(dump_lines) :
           ~(dump_lines[j].item
             /\ Contains(dump_lines[j].name, <<"BOX", "BOUNDS">>))

\* C22: read_dump accepts both formats of the box section and they mean the
\* same for the same box: after read_dump has returned for a periodic
\* structure, when the last box of the file (followed, as LAMMPS writes it,
\* by another section) is the box of bounds 0 to 10 in either format
\* (axis-aligned, or triclinic with the tilt factors 0), the cell of the
\* structure is 10, 10, 10, 90, 90, 90.
C22_BoxFormatsEquivalent ==
    (/\ rd_pc = "returned"
     /\ system.periodicity = 3
     /\ \E i \in 1..(Len(dump_lines) - 3) :
            /\ LastBoxAt(i)
            /\ SubSeq(dump_lines, i, i + 3) \in SameBoxSections)
    => system.cell = [a |-> 10000, b |-> 10000, c |-> 10000,
                      alpha |-> 90, beta |-> 90, gamma |-> 90]

\* C26: after read_dump has returned, the structure has one coordinate
\* triple for each of its atoms, whatever the dump file holds.
C26_OneTriplePerAtom ==
    rd_pc = "returned" => Len(system.coordinates) = system.n_atoms

\* C27: when read_dump has raised, for whatever reason, the cell and the
\* coordinates of the structure are what they were before the call; the
\* structure changes only in the step in which read_dump returns.
C27_RaiseLeavesStructure ==
    /\ [](rd_pc = "raised" =>
            /\ system.cell = OldCell
            /\ system.coordinates = OldCoordinates(system.n_atoms))
    /\ [][system' # system => rd_pc' = "returned"]_vars

\* the whole file of a periodic structure was parsed, atoms were read, and
\* read_dump raised at the end for want of a box section
C27_Witness ==
    /\ rd_pc = "raised"
    /\ rd_error = "UnboundLocalError"
    /\ lineno = Len(dump_lines)
    /\ xyz # <<>>
    /\ system.periodicity = 3

\* C23: run() changes the parameters of a node only when it extends a node
\* run until its properties converge: the Initialization node and the nodes
\* of fixed duration always have the parameters the flowchart gave them; a
\* node that converges at iteration 0 has them too; and a step changes the
\* nodes only by extending the current node, of which it changes the time
\* and nothing else.
C23_OnlyExtensionChangesParameters ==
    /\ [](\A i \in 1..Len(nodes) :
             nodes[i].kind \in {"init", "fixed"} => nodes[i] = flowchart[i])
    /\ [][(pc = "analyze" /\ pc' = "loop" /\ iteration = 0) =>
             nodes'[node] = flowchart[node]]_vars
    /\ [][nodes' # nodes =>
             /\ pc = "analyze"
             /\ decision' = "EXTEND"
             /\ nodes[node].kind = "conv"
             /\ \E t \in 1..(MaxTime * Pow2(MaxIter + 1) * MaxTimestep) :
                   nodes' = [nodes EXCEPT ![node].time = t]]_vars

\* run() has returned for a flowchart with a node of fixed duration and a
\* node that was extended before it converged
C23_Witness ==
    /\ pc = "returned"
    /\ retval # "None"
    /\ \E i \in 1..Len(nodes) : nodes[i].kind = "fixed"
    /\ \E i \in 1..Len(nodes) :
          nodes[i].kind = "conv" /\ nodes[i].time # flowchart[i].time

\* C24: the header that opens every extension batch is the list of lines of
\* the Initialization node: once set it never changes, neither when a node
\* joins the pending batch nor when the line that writes the dump is
\* appended to the batch, so every extension batch is the header, the
\* read_dump line, the lines of its own node and the write_dump line.
C24_HeaderIsInitializationInput ==
    /\ node > 1 => initialization_header = InitializationInput
    /\ last_call.kind = "extension" =>
          /\ Len(last_call.input) = Len(InitializationInput) + 4
          /\ SubSeq(last_call.input, 1, Len(InitializationInput))
                = InitializationInput

\* C25: in the analyses that end run(), the analysis of a node that has no
\* trajectory file, as the Initialization node, raises nothing and gives no
\* results: the next node of the history is analyzed, or run() returns.
C25_NoTrajectoryIsNotFatal ==
    [][(/\ pc = "final_analyze"
        /\ past <= Len(history_nodes)
        /\ nodes[history_nodes[past]].kind = "init") =>
           /\ pc' \in {"final_analyze", "returned"}
           /\ past' = past + 1
           /\ analysis' = analysis]_vars

\* C28: for a torsion_1 term structure_data writes d = +1 when Phi0 is 0 and
\* d = -1 when Phi0 is 180; for any other Phi0 it raises, and writes no
\* line for the term.
C28_TorsionSign ==
    \A i \in 1..Len(eex.torsion_parameters) :
        eex.torsion_parameters[i].form = "torsion_1" =>
            /\ (i <= Len(coeffs) /\ eex.torsion_parameters[i].Phi0 = 0) =>
                  coeffs[i].d = "+1"
            /\ (i <= Len(coeffs) /\ eex.torsion_parameters[i].Phi0 = 180) =>
                  coeffs[i].d = "-1"
            /\ eex.torsion_parameters[i].Phi0 \notin {0, 180} =>
                  /\ Len(coeffs) < i
                  /\ sd_pc # "returned"
                  /\ counter = i => sd_pc \in {"coeffs", "raised"}

\* C29: for an energy expression that is not periodic, the box limits
\* structure_data writes are at least 10 away from every atom, on each side
\* and along each axis.
C29_BoxEnclosesAtoms ==
    (eex.periodicity = 0 /\ counter >= 1) =>
        \A i \in 1..Len(eex.atoms) :
            /\ limits.xlo <= eex.atoms[i][1] - EXTRA_SPACE
            /\ limits.xhi >= eex.atoms[i][1] + EXTRA_SPACE
            /\ limits.ylo <= eex.atoms[i][2] - EXTRA_SPACE
            /\ limits.yhi >= eex.atoms[i][2] + EXTRA_SPACE
            /\ limits.zlo <= eex.atoms[i][3] - EXTRA_SPACE
            /\ limits.zhi >= eex.atoms[i][3] + EXTRA_SPACE

\* C30: handle_dialog changes the parameters of the node only for the
\* result 'OK'; for None, 'Cancel', 'Help' and a result it does not know
\* they stay as they are.  The dialog is deactivated for every result but
\* 'Help', for which nothing is done; for a result it does not know,
\* handle_dialog raises, after it has deactivated the dialog.
C30_OnlyOKChangesParameters ==
    [][n_dialogs' # n_dialogs =>
          /\ dialog_result' # "OK" => P' = P
          /\ dialog_result' = "Help" =>
                /\ dialog_active' = dialog_active
                /\ dialog_calls' = <<>>
          /\ dialog_result' # "Help" =>
                /\ ~dialog_active'
                /\ dialog_calls'[1] = "deactivate"
          /\ dialog_result' \in {"None", "Cancel", "Help", "OK"} =>
                dialog_error' = "none"
          /\ dialog_result' \notin {"None", "Cancel", "Help", "OK"} =>
                /\ dialog_error' = "RuntimeError"
                /\ dialog_calls' = <<"deactivate", "raise">>
          /\ dialog_result' = "OK" =>
                /\ P'.time = widgets'.time
                /\ P'.timestep.value = widgets'.timestep.value
                /\ P'.sampling.value = widgets'.sampling.value
      ]_vars

\* after an 'OK' that changed the parameters, 'Cancel' was handled: the
\* parameters are those of the 'OK', not what the widgets hold
C30_Witness ==
    /\ n_dialogs = 2
    /\ dialog_result = "Cancel"
    /\ ~dialog_active
    /\ P \notin ParameterValues
    /\ P.time # widgets.time

====
